---- MODULE Spec2Model ----
(***************************************************************************)
(* Standard-cell legalizer (standardcelllegalization.py).                  *)
(*                                                                         *)
(* A cell is an axis-aligned rectangle, kept as its bounds record          *)
(* [minx, miny, maxx, maxy].  The script filters the fixture cells by      *)
(* containment in the block polygon, snaps every cell to the grid and then *)
(* resolves overlaps cell by cell (resolve_overlaps).                      *)
(***************************************************************************)
EXTENDS Integers, Sequences, FiniteSets, TLC

VARIABLES
    all_standard_cells,  \* the fixture list (script line 161)
    standard_cells,      \* the fixture cells inside the block (line 195)
    grid_size,           \* the grid_size argument of resolve_overlaps
    updated_cells,       \* resolve_overlaps' working list (line 64)
    i,                   \* index of the for loop (line 66), 1-based here
    cell,                \* the loop's local: the cell being moved
    original_cell,       \* the loop's local: the cell as the loop found it
    seen_positions,      \* the loop's memo set of <<bounds, direction>>
    moves,               \* translations applied to the current cell
    status,              \* per cell: how far its loop got and how it ended
    pc                   \* position in the script

vars == <<all_standard_cells, standard_cells, grid_size, updated_cells, i,
          cell, original_cell, seen_positions, moves, status, pc>>

----------------------------------------------------------------------------
(* Program constants *)

GRID_HEIGHT == 20

BLOCK_COORDS ==
    << <<0, 0>>, <<1000, 0>>, <<1000, 2000>>, <<800, 2000>>, <<800, 1500>>,
       <<400, 1500>>, <<400, 2000>>, <<100, 2000>>, <<100, 1000>>,
       <<0, 1000>>, <<0, 0>> >>

\* The extent written into compute_displacement's boundary checks.
ExtentMaxX == 1000
ExtentMaxY == 2000

\* float("inf"): larger than every cost and every coordinate of the model.
Inf == 1000000

----------------------------------------------------------------------------
(* Geometry *)

Polygon(x1, y1, x2, y2) == [minx |-> x1, miny |-> y1, maxx |-> x2, maxy |-> y2]

\* The loop's locals before the for loop has bound them.
NoCell == Polygon(0, 0, 0, 0)

translate(p, dx, dy) ==
    Polygon(p.minx + dx, p.miny + dy, p.maxx + dx, p.maxy + dy)

\* Two closed rectangles share a point (touching counts).
intersects(a, b) ==
    /\ a.minx <= b.maxx /\ b.minx <= a.maxx
    /\ a.miny <= b.maxy /\ b.miny <= a.maxy

\* The k-th edge of the ring, as the bounds of the segment.
Edge(ring, k) ==
    LET p == ring[k]
        q == ring[k + 1]
    IN  [x1 |-> IF p[1] <= q[1] THEN p[1] ELSE q[1],
         x2 |-> IF p[1] <= q[1] THEN q[1] ELSE p[1],
         y1 |-> IF p[2] <= q[2] THEN p[2] ELSE q[2],
         y2 |-> IF p[2] <= q[2] THEN q[2] ELSE p[2]]

\* The edge meets the open interior of the rectangle.
EdgeCutsInterior(e, r) ==
    /\ e.x1 < r.maxx /\ r.minx < e.x2
    /\ e.y1 < r.maxy /\ r.miny < e.y2

\* Ray casting from the rectangle's centre towards +x, in doubled
\* coordinates so that the centre is an integer point: the number of
\* vertical edges right of the centre whose span holds the centre's y.
CrossingsRightOfCentre(ring, r) ==
    Cardinality({k \in 1..(Len(ring) - 1) :
        LET e == Edge(ring, k)
        IN  /\ e.x1 = e.x2
            /\ 2 * e.x1 > r.minx + r.maxx
            /\ 2 * e.y1 <= r.miny + r.maxy
            /\ r.miny + r.maxy < 2 * e.y2})

\* polygon.contains(rectangle) for a simple rectilinear ring and a rectangle
\* of positive area: no edge passes through the rectangle's interior and
\* the rectangle's centre is inside the ring.
contains(ring, r) ==
    /\ r.minx < r.maxx /\ r.miny < r.maxy
    /\ \A k \in 1..(Len(ring) - 1) : ~EdgeCutsInterior(Edge(ring, k), r)
    /\ CrossingsRightOfCentre(ring, r) % 2 = 1

----------------------------------------------------------------------------
(* The script's functions *)

\* Python's round(n / q) for integers n and q > 0: nearest, halves to even.
Round(n, q) ==
    LET k == n \div q
        r == n % q
    IN  IF 2 * r < q THEN k
        ELSE IF 2 * r > q THEN k + 1
        ELSE IF k % 2 = 0 THEN k ELSE k + 1

\* snap_to_grid translating by the rounded coordinate itself.
snap_to_grid_no_offset(polygon, q) ==
    translate(polygon, Round(polygon.minx, q) * q, Round(polygon.miny, q) * q)

snap_to_grid(polygon, q) ==
    LET dx == Round(polygon.minx, q) * q - polygon.minx
        dy == Round(polygon.miny, q) * q - polygon.miny
    IN  translate(polygon, dx, dy)

\* Containment in the extent of the block in place of the block itself.
is_inside_extent(c, block_boundary) ==
    /\ 0 <= c.minx /\ c.maxx <= ExtentMaxX
    /\ 0 <= c.miny /\ c.maxy <= ExtentMaxY

is_inside_block(c, block_boundary) == contains(block_boundary, c)

\* `other != cell` compares the two geometries, not the two list places.
has_overlap(c, cells) ==
    \E k \in 1..Len(cells) : cells[k] # c /\ intersects(c, cells[k])

overlap_with_boundary(c, block_boundary) == ~contains(block_boundary, c)

\* The smallest element of a non-empty set of numbers, Inf for the empty set.
MinOf(S) == IF S = {} THEN Inf ELSE CHOOSE m \in S : \A n \in S : m <= n

\* The cells of the list that the scan of compute_displacement acts on.
Overlapping(c, cells) ==
    {k \in 1..Len(cells) : cells[k] # c /\ intersects(c, cells[k])}

\* The scan without the clearance of one grid quantum.
ScanCostsNoClearance(c, cells, q) ==
    LET O == Overlapping(c, cells)
    IN  [left  |-> MinOf({c.maxx - cells[k].minx : k \in O}),
         right |-> MinOf({cells[k].maxx - c.minx : k \in O}),
         down  |-> MinOf({c.maxy - cells[k].miny : k \in O}),
         up    |-> MinOf({cells[k].maxy - c.miny : k \in O})]

\* Lines 40-46: the four costs after the scan of the other cells.
ScanCosts(c, cells, q) ==
    LET O == Overlapping(c, cells)
    IN  [left  |-> MinOf({c.maxx - cells[k].minx + q : k \in O}),
         right |-> MinOf({cells[k].maxx - c.minx + q : k \in O}),
         down  |-> MinOf({c.maxy - cells[k].miny + q : k \in O}),
         up    |-> MinOf({cells[k].maxy - c.miny + q : k \in O})]

\* Lines 48-56: a direction that leaves the extent becomes infinite.
ExtentCosts(c, d) ==
    [left  |-> IF c.minx - d.left < 0 THEN Inf ELSE d.left,
     right |-> IF c.maxx + d.right > ExtentMaxX THEN Inf ELSE d.right,
     down  |-> IF c.miny - d.down < 0 THEN Inf ELSE d.down,
     up    |-> IF c.maxy + d.up > ExtentMaxY THEN Inf ELSE d.up]

\* Line 59: min over the dict, the first minimum in insertion order
\* left, right, up, down.
BestMove(d) ==
    IF d.left <= d.right /\ d.left <= d.up /\ d.left <= d.down THEN "left"
    ELSE IF d.right <= d.up /\ d.right <= d.down THEN "right"
    ELSE IF d.up <= d.down THEN "up"
    ELSE "down"

compute_displacement(c, cells, q) ==
    LET d == ExtentCosts(c, ScanCosts(c, cells, q))
        m == BestMove(d)
    IN  [best_move |-> m, displacement |-> d[m]]

\* Lines 81-88: the translation of the chosen move.
Moved(c, best_move, displacement) ==
    IF best_move = "left" THEN translate(c, -displacement, 0)
    ELSE IF best_move = "right" THEN translate(c, displacement, 0)
    ELSE IF best_move = "up" THEN translate(c, 0, displacement)
    ELSE translate(c, 0, -displacement)

\* The memo test never recognising a pair.
SeenNever(c, best_move, seen) == FALSE

\* Line 75: the memo test.
Seen(c, best_move, seen) == <<c, best_move>> \in seen

\* A revert that leaves the last committed position in the list.
RestoredNothing(original, current) == current

\* Lines 76 and 92: what a revert stores at the cell's index.
Restored(original, current) == original

----------------------------------------------------------------------------
(* Inputs *)

MaxCells == 3

\* The fixture cells the lists are drawn from.
FixtureCells ==
    { Polygon(0, 0, 40, 40),
      Polygon(60, 0, 100, 40),
      Polygon(100, 0, 140, 40),
      Polygon(20, 0, 60, 40),
      Polygon(20, 0, 60, 5),
      Polygon(30, 10, 75, 25),
      Polygon(0, 0, 450, 900),
      Polygon(0, 0, 20, 40),
      Polygon(460, 900, 540, 1100),
      Polygon(100, 1000, 160, 1040),
      Polygon(140, 1000, 200, 1040),
      Polygon(800, 1500, 900, 2000),
      Polygon(880, 1500, 980, 2000),
      Polygon(0, 1000, 40, 1040),
      Polygon(10, 990, 50, 1000),
      Polygon(500, 1400, 540, 1460),
      Polygon(500, 1380, 540, 1420),
      Polygon(460, 1420, 580, 1440) }

\* The fixture cells of the runs checked for termination: three cells in a
\* row that make the middle one oscillate, two cells beside the notch of the
\* block, and a cell that snapping pushes into the notch.
OscillationCells ==
    { Polygon(0, 0, 40, 40),
      Polygon(60, 0, 100, 40),
      Polygon(100, 0, 140, 40),
      Polygon(100, 1000, 160, 1040),
      Polygon(140, 1000, 200, 1040),
      Polygon(10, 990, 50, 1000) }

SeqsUpTo(S, n) == UNION {[1..m -> S] : m \in 0..n}

----------------------------------------------------------------------------
(* The script *)

Init ==
    /\ all_standard_cells = <<>>
    /\ standard_cells = <<>>
    /\ grid_size = GRID_HEIGHT
    /\ updated_cells = <<>>
    /\ i = 0
    /\ cell = NoCell
    /\ original_cell = NoCell
    /\ seen_positions = {}
    /\ moves = 0
    /\ status = <<>>
    /\ pc = "load"

\* Lines 161-192: the fixture list is built.
Load ==
    /\ pc = "load"
    /\ all_standard_cells' \in SeqsUpTo(FixtureCells, MaxCells)
    /\ pc' = "filter"
    /\ UNCHANGED <<standard_cells, grid_size, updated_cells, i, cell,
                   original_cell, seen_positions, moves, status>>

\* Lines 161-192, with the fixture list drawn from OscillationCells.
LoadOscillation ==
    /\ pc = "load"
    /\ all_standard_cells' \in SeqsUpTo(OscillationCells, MaxCells)
    /\ pc' = "filter"
    /\ UNCHANGED <<standard_cells, grid_size, updated_cells, i, cell,
                   original_cell, seen_positions, moves, status>>

\* Line 195: keep the fixture cells inside the block.
Filter ==
    /\ pc = "filter"
    /\ standard_cells' =
         SelectSeq(all_standard_cells, LAMBDA c : is_inside_block(c, BLOCK_COORDS))
    /\ pc' = "snap"
    /\ UNCHANGED <<all_standard_cells, grid_size, updated_cells, i, cell,
                   original_cell, seen_positions, moves, status>>

\* Line 64: snap every cell.
SnapAll ==
    /\ pc = "snap"
    /\ updated_cells' =
         [k \in 1..Len(standard_cells) |-> snap_to_grid(standard_cells[k], grid_size)]
    /\ status' = [k \in 1..Len(standard_cells) |-> "SNAPPED"]
    /\ i' = 1
    /\ pc' = "for"
    /\ UNCHANGED <<all_standard_cells, standard_cells, grid_size, cell,
                   original_cell, seen_positions, moves>>

\* Lines 66-68: the for loop binds the next cell.
ForNext ==
    /\ pc = "for"
    /\ i <= Len(updated_cells)
    /\ cell' = updated_cells[i]
    /\ original_cell' = updated_cells[i]
    /\ seen_positions' = {}
    /\ moves' = 0
    /\ status' = [status EXCEPT ![i] = "RESOLVING"]
    /\ pc' = "while"
    /\ UNCHANGED <<all_standard_cells, standard_cells, grid_size, updated_cells, i>>

\* Line 97: the for loop is exhausted.
Return ==
    /\ pc = "for"
    /\ i > Len(updated_cells)
    /\ pc' = "done"
    /\ UNCHANGED <<all_standard_cells, standard_cells, grid_size, updated_cells,
                   i, cell, original_cell, seen_positions, moves, status>>

\* Line 70: the while condition.
LoopCond ==
    \/ has_overlap(cell, updated_cells)
    \/ overlap_with_boundary(cell, BLOCK_COORDS)

\* Line 70: the condition is false, the loop ends.
Resolved ==
    /\ pc = "while"
    /\ ~LoopCond
    /\ status' = [status EXCEPT ![i] = "RESOLVED"]
    /\ i' = i + 1
    /\ pc' = "for"
    /\ UNCHANGED <<all_standard_cells, standard_cells, grid_size, updated_cells,
                   cell, original_cell, seen_positions, moves>>

\* Lines 72-73: no valid move.
Stuck ==
    /\ pc = "while"
    /\ LoopCond
    /\ \E choice \in {compute_displacement(cell, updated_cells, grid_size)} :
        /\ choice.displacement = Inf
        /\ status' = [status EXCEPT ![i] = "STUCK"]
        /\ i' = i + 1
        /\ pc' = "for"
        /\ UNCHANGED <<all_standard_cells, standard_cells, grid_size,
                       updated_cells, cell, original_cell, seen_positions, moves>>

\* Lines 75-77: the pair was seen before.
Deadlock ==
    /\ pc = "while"
    /\ LoopCond
    /\ \E choice \in {compute_displacement(cell, updated_cells, grid_size)} :
        /\ choice.displacement # Inf
        /\ Seen(cell, choice.best_move, seen_positions)
        /\ updated_cells' =
             [updated_cells EXCEPT ![i] = Restored(original_cell, @)]
        /\ status' = [status EXCEPT ![i] = "REVERTED"]
        /\ i' = i + 1
        /\ pc' = "for"
        /\ UNCHANGED <<all_standard_cells, standard_cells, grid_size, cell,
                       original_cell, seen_positions, moves>>

\* Lines 79-93: the move leaves the block.
MoveOut ==
    /\ pc = "while"
    /\ LoopCond
    /\ \E choice \in {compute_displacement(cell, updated_cells, grid_size)} :
        /\ choice.displacement # Inf
        /\ ~Seen(cell, choice.best_move, seen_positions)
        /\ \E target \in {Moved(cell, choice.best_move, choice.displacement)} :
            /\ ~is_inside_block(target, BLOCK_COORDS)
            /\ seen_positions' = seen_positions \cup {<<cell, choice.best_move>>}
            /\ cell' = target
            /\ moves' = moves + 1
            /\ updated_cells' =
                 [updated_cells EXCEPT ![i] = Restored(original_cell, @)]
            /\ status' = [status EXCEPT ![i] = "REVERTED"]
            /\ i' = i + 1
            /\ pc' = "for"
            /\ UNCHANGED <<all_standard_cells, standard_cells, grid_size,
                           original_cell>>

\* The committed move stored at the head of the list instead of index i.
CommitAtFirst ==
    /\ pc = "while"
    /\ LoopCond
    /\ \E choice \in {compute_displacement(cell, updated_cells, grid_size)} :
        /\ choice.displacement # Inf
        /\ ~Seen(cell, choice.best_move, seen_positions)
        /\ \E target \in {Moved(cell, choice.best_move, choice.displacement)} :
            /\ is_inside_block(target, BLOCK_COORDS)
            /\ seen_positions' = seen_positions \cup {<<cell, choice.best_move>>}
            /\ cell' = target
            /\ moves' = moves + 1
            /\ updated_cells' = [updated_cells EXCEPT ![1] = target]
            /\ UNCHANGED <<all_standard_cells, standard_cells, grid_size, i,
                           original_cell, status, pc>>

\* Lines 79-95: the move is committed and the loop goes round.
Commit ==
    /\ pc = "while"
    /\ LoopCond
    /\ \E choice \in {compute_displacement(cell, updated_cells, grid_size)} :
        /\ choice.displacement # Inf
        /\ ~Seen(cell, choice.best_move, seen_positions)
        /\ \E target \in {Moved(cell, choice.best_move, choice.displacement)} :
            /\ is_inside_block(target, BLOCK_COORDS)
            /\ seen_positions' = seen_positions \cup {<<cell, choice.best_move>>}
            /\ cell' = target
            /\ moves' = moves + 1
            /\ updated_cells' = [updated_cells EXCEPT ![i] = target]
            /\ UNCHANGED <<all_standard_cells, standard_cells, grid_size, i,
                           original_cell, status, pc>>

Next ==
    \/ Load
    \/ Filter
    \/ SnapAll
    \/ ForNext
    \/ Return
    \/ Resolved
    \/ Stuck
    \/ Deadlock
    \/ MoveOut
    \/ Commit

Spec == Init /\ [][Next]_vars

\* Lines 194-201 and resolve_overlaps: every step after the fixture list.
Run ==
    \/ Filter
    \/ SnapAll
    \/ ForNext
    \/ Return
    \/ Resolved
    \/ Stuck
    \/ Deadlock
    \/ MoveOut
    \/ Commit

NextOscillation == LoadOscillation \/ Run

\* The script is one sequential process: it takes its next step whenever
\* it has one.
FairSpec == Init /\ [][NextOscillation]_vars /\ WF_vars(NextOscillation)

----------------------------------------------------------------------------
(* snap_to_grid on its own: one rectangle with integer coordinates and a
   positive quantum, snapped and snapped again *)

MaxCoord == 6
MaxSide == 2
MaxQuantum == 4

SnapInit ==
    /\ all_standard_cells \in
         { <<Polygon(x, y, x + w, y + h)>> :
             x \in -MaxCoord..MaxCoord, y \in -MaxCoord..MaxCoord,
             w \in 1..MaxSide, h \in 1..MaxSide }
    /\ grid_size \in 1..MaxQuantum
    /\ standard_cells = <<>>
    /\ updated_cells = <<>>
    /\ i = 0
    /\ cell = NoCell
    /\ original_cell = NoCell
    /\ seen_positions = {}
    /\ moves = 0
    /\ status = <<>>
    /\ pc = "snap once"

\* snap_to_grid(r, q)
SnapOnce ==
    /\ pc = "snap once"
    /\ cell' = snap_to_grid(all_standard_cells[1], grid_size)
    /\ pc' = "snap twice"
    /\ UNCHANGED <<all_standard_cells, standard_cells, grid_size, updated_cells,
                   i, original_cell, seen_positions, moves, status>>

\* snap_to_grid(snap_to_grid(r, q), q); original_cell keeps the first result.
SnapTwice ==
    /\ pc = "snap twice"
    /\ original_cell' = cell
    /\ cell' = snap_to_grid(cell, grid_size)
    /\ pc' = "snapped twice"
    /\ UNCHANGED <<all_standard_cells, standard_cells, grid_size, updated_cells,
                   i, seen_positions, moves, status>>

SnapNext == SnapOnce \/ SnapTwice

SnapSpec == SnapInit /\ [][SnapNext]_vars

----------------------------------------------------------------------------
(* Properties *)

Cells == 1..Len(updated_cells)

\* The position of cell k immediately after the initial snapping.
Snapped(k) == snap_to_grid(standard_cells[k], grid_size)

Legal(k) ==
    /\ contains(BLOCK_COORDS, updated_cells[k])
    /\ \A j \in Cells : j # k => ~intersects(updated_cells[k], updated_cells[j])

\* C1: when resolve_overlaps has returned, every cell whose loop ended
\* because the while condition became false is contained in the block and
\* shares no point with the cell at any other index.
C1_ResolvedCellsAreLegal ==
    pc = "done" => \A k \in Cells : status[k] = "RESOLVED" => Legal(k)

\* C2: when resolve_overlaps has returned, every cell is legal (contained in
\* the block, sharing no point with another cell) or at its snapped position.
C2_LegalOrSnapped ==
    pc = "done" => \A k \in Cells : Legal(k) \/ updated_cells[k] = Snapped(k)

\* C3: a cell whose loop ended in a revert is, in the returned list, at its
\* position immediately after the initial snapping.
C3_RevertRestoresSnapped ==
    pc = "done" =>
        \A k \in Cells : status[k] = "REVERTED" => updated_cells[k] = Snapped(k)

\* A cell was reverted after at least one committed move, and has the
\* snapped position back.
C3_Witness ==
    /\ pc = "for"
    /\ i > 1
    /\ status[i - 1] = "REVERTED"
    /\ moves >= 2
    /\ updated_cells[i - 1] = Snapped(i - 1)

\* C4: under the script's sequential execution every loop ends and
\* resolve_overlaps returns, and the translations applied to the current
\* cell never outnumber the pairs in its memo set.
C4_Terminates ==
    /\ <>(pc = "done")
    /\ [](moves <= Cardinality(seen_positions))

\* A loop has come back, after two translations, to a pair of its memo set.
C4_Witness ==
    /\ pc = "while"
    /\ moves >= 2
    /\ LoopCond
    /\ Seen(cell, compute_displacement(cell, updated_cells, grid_size).best_move,
            seen_positions)

\* The state immediately after the initial snapping.
JustSnapped == pc = "for" /\ i = 1

OnGrid(n) == n % grid_size = 0

\* C5 as stated: immediately after the initial snapping all four bounds of
\* every cell are multiples of the grid quantum.
C5_AllBoundsOnGrid ==
    JustSnapped =>
        \A k \in Cells :
            /\ OnGrid(updated_cells[k].minx) /\ OnGrid(updated_cells[k].miny)
            /\ OnGrid(updated_cells[k].maxx) /\ OnGrid(updated_cells[k].maxy)

\* C5 as amended: immediately after the initial snapping minx and miny of
\* every cell are multiples of the grid quantum and the cell has kept its
\* width and height (so maxx and maxy are on the grid only when the width
\* and the height are multiples of the quantum).
C5_LowerLeftOnGrid ==
    JustSnapped =>
        \A k \in Cells :
            /\ OnGrid(updated_cells[k].minx) /\ OnGrid(updated_cells[k].miny)
            /\ updated_cells[k].maxx - updated_cells[k].minx
                 = standard_cells[k].maxx - standard_cells[k].minx
            /\ updated_cells[k].maxy - updated_cells[k].miny
                 = standard_cells[k].maxy - standard_cells[k].miny

\* Snapping has moved a cell whose upper-right corner is then off the grid.
C5_Witness ==
    /\ JustSnapped
    /\ \E k \in Cells :
        /\ updated_cells[k] # standard_cells[k]
        /\ ~OnGrid(updated_cells[k].maxx)
        /\ ~OnGrid(updated_cells[k].maxy)

\* C6: in the returned list the lower-left corner of every cell is a
\* multiple of the grid quantum.
C6_ReturnedLowerLeftOnGrid ==
    pc = "done" =>
        \A k \in Cells :
            OnGrid(updated_cells[k].minx) /\ OnGrid(updated_cells[k].miny)

\* C7: snapping a snapped rectangle leaves its bounds as they are, for
\* every rectangle with integer coordinates and every positive quantum, the
\* rectangles whose lower-left corner is halfway between two grid lines
\* included.
C7_SnapIdempotent == pc = "snapped twice" => cell = original_cell

\* A rectangle whose minx is exactly halfway between two multiples of the
\* quantum has been snapped twice, the first snap having moved it.
C7_Witness ==
    /\ pc = "snapped twice"
    /\ 2 * (all_standard_cells[1].minx % grid_size) = grid_size
    /\ original_cell # all_standard_cells[1]

XOverlap(a, b) ==
    (IF a.maxx <= b.maxx THEN a.maxx ELSE b.maxx)
        - (IF a.minx >= b.minx THEN a.minx ELSE b.minx)

YOverlap(a, b) ==
    (IF a.maxy <= b.maxy THEN a.maxy ELSE b.maxy)
        - (IF a.miny >= b.miny THEN a.miny ELSE b.miny)

\* Scenario A: the fixture list holds two cells, both inside the block, and
\* the quantum is 20; as the initial snapping leaves them the two cells have
\* different coordinates, are inside the block, and overlap by 20 units
\* along x and by a positive amount along y.
ScenarioA ==
    /\ Len(all_standard_cells) = 2
    /\ Len(standard_cells) = 2
    /\ grid_size = 20
    /\ Snapped(1) # Snapped(2)
    /\ contains(BLOCK_COORDS, Snapped(1))
    /\ contains(BLOCK_COORDS, Snapped(2))
    /\ XOverlap(Snapped(1), Snapped(2)) = 20
    /\ YOverlap(Snapped(1), Snapped(2)) > 0

Abs(n) == IF n < 0 THEN -n ELSE n

\* Cell k has ended translated along x only, by at least 40 units.
MovedHorizontally(k) ==
    /\ updated_cells[k].miny = Snapped(k).miny
    /\ Abs(updated_cells[k].minx - Snapped(k).minx) >= 40

\* Cell k has ended translated along y only, by more than 20 units.
MovedVertically(k) ==
    /\ updated_cells[k].minx = Snapped(k).minx
    /\ Abs(updated_cells[k].miny - Snapped(k).miny) > 20

\* The list as the initial snapping leaves it.
SnappedCells == [k \in 1..Len(standard_cells) |-> Snapped(k)]

\* What compute_displacement offers cell k in the snapped list.
FirstChoice(k) == compute_displacement(Snapped(k), SnappedCells, grid_size)

FirstTarget(k) ==
    Moved(Snapped(k), FirstChoice(k).best_move, FirstChoice(k).displacement)

\* C8 as stated: in scenario A the run ends with the two cells contained in
\* the block and disjoint, one of them translated along x by at least 40.
C8_ScenarioASeparatesHorizontally ==
    (pc = "done" /\ ScenarioA) =>
        /\ \A k \in Cells : Legal(k)
        /\ \E k \in Cells : MovedHorizontally(k)

\* C8 as amended: in scenario A the run ends with both cells contained in
\* the block and at most one of them moved.  A moved cell has made the one
\* translation compute_displacement chose for it among all four directions,
\* along x by at least 40 or along y by more than 20, and the two cells are
\* then disjoint.  If neither cell has moved, each was offered an infinite
\* cost or a move that leaves the block, and the two still intersect.
C8_ScenarioAOneMove ==
    (pc = "done" /\ ScenarioA) =>
        /\ \A k \in Cells : contains(BLOCK_COORDS, updated_cells[k])
        /\ \A k \in Cells :
            updated_cells[k] # Snapped(k) =>
                /\ \A j \in Cells : j # k => updated_cells[j] = Snapped(j)
                /\ updated_cells[k] = FirstTarget(k)
                /\ MovedHorizontally(k) \/ MovedVertically(k)
                /\ Legal(k)
        /\ (\A k \in Cells : updated_cells[k] = Snapped(k)) =>
                /\ intersects(updated_cells[1], updated_cells[2])
                /\ \A k \in Cells :
                    \/ FirstChoice(k).displacement = Inf
                    \/ ~contains(BLOCK_COORDS, FirstTarget(k))

\* Scenario A has ended with one cell translated along y and the two disjoint.
C8_Witness ==
    /\ pc = "done"
    /\ ScenarioA
    /\ \E k \in Cells : MovedVertically(k) /\ Legal(k)

\* C10: a committed move leaves the moved cell disjoint from every cell it
\* intersected immediately before the move.
C10_CommitClearsEveryOverlap ==
    [][(pc = "while" /\ pc' = "while" /\ moves' = moves + 1) =>
          \A j \in Cells :
              (j # i /\ intersects(cell, updated_cells[j])) =>
                  ~intersects(cell', updated_cells[j])]_vars

----------------------------------------------------------------------------
(* The reference of compute_displacement *)

Directions == <<"left", "right", "up", "down">>

\* What one intersecting rectangle o asks of rectangle c in a direction.
ReferenceCost(dir, c, o, q) ==
    IF dir = "left" THEN c.maxx - o.minx + q
    ELSE IF dir = "right" THEN o.maxx - c.minx + q
    ELSE IF dir = "down" THEN c.maxy - o.miny + q
    ELSE o.maxy - c.miny + q

\* The rectangles at the other indices that share a point with c.
ReferenceOthers(c, k, cells) ==
    {j \in 1..Len(cells) : j # k /\ intersects(c, cells[j])}

\* The minimum over the intersecting others, infinity if there are none.
ReferenceScan(dir, c, k, cells, q) ==
    LET S == {ReferenceCost(dir, c, cells[j], q) : j \in ReferenceOthers(c, k, cells)}
    IN  IF S = {} THEN Inf ELSE CHOOSE m \in S : \A n \in S : m <= n

\* The rectangle translated by the cost in the direction passes the side of
\* the extent [0,1000]x[0,2000] it moves towards.
ReferenceLeaves(dir, c, cost) ==
    IF dir = "left" THEN c.minx - cost < 0
    ELSE IF dir = "right" THEN c.maxx + cost > 1000
    ELSE IF dir = "down" THEN c.miny - cost < 0
    ELSE c.maxy + cost > 2000

\* The reference for the rectangle c stored at index k of the list.
Reference(c, k, cells, q) ==
    LET scan == [n \in 1..4 |-> ReferenceScan(Directions[n], c, k, cells, q)]
        cost == [n \in 1..4 |->
                    IF ReferenceLeaves(Directions[n], c, scan[n]) THEN Inf ELSE scan[n]]
        best == CHOOSE n \in 1..4 :
                    /\ \A m \in 1..4 : cost[n] <= cost[m]
                    /\ \A m \in 1..(n - 1) : cost[m] > cost[n]
    IN  [best_move |-> Directions[best], displacement |-> cost[best]]

\* C11: whenever the loop calls compute_displacement, the pair it returns is
\* the reference's: per direction the minimum over the intersecting
\* rectangles at the other indices of the cost with one quantum of
\* clearance, infinity if none; a direction that takes the rectangle past
\* the extent is infinite; the cheapest direction is returned, ties (all
\* infinite included) in the order left, right, up, down.
C11_MatchesReference ==
    (pc = "while" /\ LoopCond) =>
        compute_displacement(cell, updated_cells, grid_size)
            = Reference(cell, i, updated_cells, grid_size)

\* C12: the loop of cell i ends with the while condition false only when no
\* cell at another index shares a point with it, touching cells and cells
\* of the same coordinates included.
C12_LoopRunsWhileAnotherIndexOverlaps ==
    [][(pc = "while" /\ pc' = "for" /\ status'[i] = "RESOLVED") =>
          \A j \in Cells : j # i => ~intersects(cell, updated_cells[j])]_vars

Width(r) == r.maxx - r.minx

Height(r) == r.maxy - r.miny

\* C13: the cells are processed in ascending index order and a step taken
\* while cell i is being resolved changes the list at index i only, so a
\* cell whose loop has ended is never moved again; the list keeps the length
\* of the input and every index keeps its rectangle (same width and height),
\* and resolve_overlaps returns after the last index.
C13_OnlyCurrentIndexChanges ==
    /\ [](pc \in {"for", "while", "done"} =>
            /\ Len(updated_cells) = Len(standard_cells)
            /\ \A k \in Cells :
                /\ Width(updated_cells[k]) = Width(standard_cells[k])
                /\ Height(updated_cells[k]) = Height(standard_cells[k])
            /\ (pc = "done" => i = Len(standard_cells) + 1))
    /\ [][(pc = "for" \/ pc = "while") =>
            (/\ i' \in {i, i + 1}
             /\ \A j \in Cells : j # i => updated_cells'[j] = updated_cells[j])]_vars

\* The second or a later cell of a list of three has been moved, behind a
\* cell that was moved before it.
C13_Witness ==
    /\ pc = "while"
    /\ Len(updated_cells) = 3
    /\ i >= 2
    /\ moves >= 1
    /\ updated_cells[i] # Snapped(i)
    /\ updated_cells[1] # Snapped(1)

\* The direction of the translation that takes rectangle a to rectangle b.
DirectionOf(a, b) ==
    IF b.minx < a.minx THEN "left"
    ELSE IF b.minx > a.minx THEN "right"
    ELSE IF b.miny > a.miny THEN "up"
    ELSE "down"

\* C14: within the loop of one cell no pair <<bounds, direction>> is applied
\* twice.  The memo set is empty when the loop of a cell starts; a
\* translation is applied only to a pair that was not in the memo set and is
\* in it afterwards, so the translations applied equal the pairs in the set;
\* and when the pair chosen is in the set already, the step reverts the
\* cell to its position at the start of the loop and ends the loop without
\* moving the cell.
C14_NoPairAppliedTwice ==
    /\ [](pc = "while" => moves = Cardinality(seen_positions))
    /\ [][(pc = "for" /\ pc' = "while") => seen_positions' = {}]_vars
    /\ [][(pc = "while" /\ cell' # cell) =>
            (/\ <<cell, DirectionOf(cell, cell')>> \notin seen_positions
             /\ seen_positions' =
                  seen_positions \cup {<<cell, DirectionOf(cell, cell')>>}
             /\ compute_displacement(cell, updated_cells, grid_size).best_move
                  = DirectionOf(cell, cell'))]_vars
    /\ [][(/\ pc = "while"
           /\ LoopCond
           /\ compute_displacement(cell, updated_cells, grid_size).displacement # Inf
           /\ <<cell, compute_displacement(cell, updated_cells, grid_size).best_move>>
                \in seen_positions) =>
            (/\ cell' = cell
             /\ pc' = "for"
             /\ i' = i + 1
             /\ updated_cells' = [updated_cells EXCEPT ![i] = original_cell])]_vars

\* A loop has ended on a pair of its memo set after two translations: the
\* cell stands where a remembered pair was applied and has its first
\* position back in the list.
C14_Witness ==
    /\ pc = "for"
    /\ i > 1
    /\ status[i - 1] = "REVERTED"
    /\ Cardinality(seen_positions) >= 2
    /\ \E d \in {"left", "right", "up", "down"} : <<cell, d>> \in seen_positions
    /\ updated_cells[i - 1] = original_cell

\* C15: at every point of the run, a cell whose position in the list differs
\* from its snapped position is contained in the block polygon; and a step
\* whose translation takes the cell out of the polygon leaves the snapped
\* position in the list.
C15_MovedCellsAreInsideBlock ==
    /\ [](pc \in {"for", "while", "done"} =>
            \A k \in Cells :
                updated_cells[k] # Snapped(k) => contains(BLOCK_COORDS, updated_cells[k]))
    /\ [][(pc = "while" /\ cell' # cell /\ ~contains(BLOCK_COORDS, cell')) =>
            updated_cells'[i] = Snapped(i)]_vars

\* One cell stands at a moved position while another, whose translation
\* left the polygon, is at its snapped position.
C15_Witness ==
    /\ pc = "for"
    /\ i > 1
    /\ status[i - 1] = "REVERTED"
    /\ moves >= 1
    /\ ~contains(BLOCK_COORDS, cell)
    /\ updated_cells[i - 1] = Snapped(i - 1)
    /\ \E k \in Cells : updated_cells[k] # Snapped(k)

\* C16: every cell that passed the containment filter is contained in the
\* block polygon after the initial snapping, so every cell enters its loop,
\* and is left by a revert, at a position inside the block.
C16_SnappedCellsAreInsideBlock ==
    /\ JustSnapped => \A k \in Cells : contains(BLOCK_COORDS, updated_cells[k])
    /\ (pc = "while" /\ moves = 0) => contains(BLOCK_COORDS, cell)
    /\ pc = "done" =>
          \A k \in Cells :
              status[k] = "REVERTED" => contains(BLOCK_COORDS, updated_cells[k])

\* C17: every translation the loop applies keeps the rectangle's size, is
\* along exactly one axis and has a finite magnitude of at least one grid
\* quantum, so it changes the rectangle's position; and every finite cost
\* compute_displacement returns to the loop is at least the quantum, which
\* is positive.
C17_MovesAreAxisAlignedAndAtLeastQuantum ==
    /\ []((pc = "while" /\ LoopCond) =>
            /\ grid_size > 0
            /\ compute_displacement(cell, updated_cells, grid_size).displacement
                 >= grid_size)
    /\ [][(pc = "while" /\ moves' = moves + 1) =>
            (/\ cell' # cell
             /\ Width(cell') = Width(cell)
             /\ Height(cell') = Height(cell)
             /\ \/ /\ cell'.miny = cell.miny
                   /\ Abs(cell'.minx - cell.minx) >= grid_size
                   /\ Abs(cell'.minx - cell.minx) < Inf
                \/ /\ cell'.minx = cell.minx
                   /\ Abs(cell'.miny - cell.miny) >= grid_size
                   /\ Abs(cell'.miny - cell.miny) < Inf)]_vars

\* A cell that touched another has been moved along x by exactly one quantum.
C17_Witness ==
    /\ pc = "while"
    /\ moves = 1
    /\ cell.miny = original_cell.miny
    /\ Abs(cell.minx - original_cell.minx) = grid_size

====
